---- MODULE Spec2Model ----
(***************************************************************************)
(* Model of vnp.bigquery: the retry decorator retry_on_transient_error and *)
(* BigQueryController.export_to_bigquery with the helpers it drives, run   *)
(* against a model of the warehouse (tables) and of the staging bucket.    *)
(*                                                                         *)
(*   SpecRetry  the decorator alone, wrapped around an operation whose     *)
(*              outcome on each invocation is drawn at Init                *)
(*   Spec       export_to_bigquery, network call by network call, with     *)
(*              injected transient and non-transient failures              *)
(***************************************************************************)
EXTENDS Integers, Sequences, FiniteSets, Bags, TLC

VARIABLES
    config,     \* BigQueryController.config: DEFAULT_CONFIG merged with the overrides
    table,      \* the destination table of the warehouse
    temps,      \* the temporary tables of the warehouse
    bucket,     \* the staged files of the bucket
    nextUri,    \* uuid4 of the next staged file
    clock,      \* seconds slept so far: datetime.now()
    faults,     \* the failures the environment still injects
    log,        \* every network call, sleep and raise so far, in order
    call,       \* per export call: its position, wrappers and locals
    w           \* SpecRetry: one wrapped call of the decorator

vars == <<config, table, temps, bucket, nextUri, clock, faults, log, call, w>>

\* ------------------------------------------------------------------ bounds

MaxRecords == 3
MaxChunkSize == 2
MaxFaults == 1
MaxPlan == 3
MaxRetriesArg == 3

MaxFields == 3

MaxEvents == 13

\* ------------------------------------------------- retry_on_transient_error

\* The exception classes of the first except clause.
TransientErrors == {"ServerError", "ServiceUnavailable", "ConnectionError", "TimeoutError"}

IsTransient_catchAll(e) == e \in TransientErrors \cup {"ValueError", "TypeError"}

IsTransient_noTimeout(e) == e \in {"ServerError", "ServiceUnavailable", "ConnectionError"}

IsTransient(e) == e \in TransientErrors

WillRetry_always(e, attempt, max_retries) == IsTransient(e)

WillRetry_oneMore(e, attempt, max_retries) == IsTransient(e) /\ attempt <= max_retries

\* except (transient) as e: if attempt < max_retries: sleep and loop, else raise
WillRetry(e, attempt, max_retries) == IsTransient(e) /\ attempt < max_retries

\* sleep_time = min(delay, max_delay)
SleepTime(delay, max_delay) == IF delay < max_delay THEN delay ELSE max_delay

NextDelay_additive(delay, backoff_factor) == delay + backoff_factor

\* delay *= backoff_factor
NextDelay(delay, backoff_factor) == delay * backoff_factor

\* The defaults of retry_on_transient_error's parameters.
DECORATOR_DEFAULTS ==
    [max_retries |-> 3, initial_delay |-> 1, backoff_factor |-> 2, max_delay |-> 60]

\* ---------------------------------------------------------------- SpecRetry
\* The wrapped operation: its outcome on invocation j is plan[j], and `rest`
\* on every invocation after the plan's end. "ok" is a normal return.

Outcomes == {"ok", "ServiceUnavailable", "TimeoutError", "ValueError", "TypeError"}

RECURSIVE SeqsUpTo(_, _)
SeqsUpTo(S, n) ==
    IF n = 0 THEN {<<>>}
    ELSE LET shorter == SeqsUpTo(S, n - 1)
         IN  shorter \cup {Append(s, x) : s \in {t \in shorter : Len(t) = n - 1}, x \in S}

Outcome(j) == IF j <= Len(w.plan) THEN w.plan[j] ELSE w.rest

IdleW ==
    [max_retries |-> 0, initial_delay |-> 0, backoff_factor |-> 0, max_delay |-> 0,
     plan |-> <<>>, rest |-> "ok", pc |-> "idle", attempt |-> 0, delay |-> 0,
     invocations |-> 0, sleeps |-> <<>>, exc |-> "none", last_exception |-> "none",
     status |-> "running", err |-> "none"]

\* wrapper(): delay = initial_delay; last_exception = None; the loop starts at attempt 0
WrapperEntry(max_retries, initial_delay, backoff_factor, max_delay, plan, rest) ==
    [IdleW EXCEPT !.max_retries = max_retries, !.initial_delay = initial_delay,
                  !.backoff_factor = backoff_factor, !.max_delay = max_delay,
                  !.plan = plan, !.rest = rest, !.pc = "try", !.delay = initial_delay]

\* A bare `raise` in an except clause re-raises the exception being handled.
Reraise(e, last_exception) == e

\* try: return func(*args, **kwargs)
RInvoke ==
    /\ w.pc = "try"
    /\ LET o == Outcome(w.invocations + 1)
       IN  IF o = "ok"
           THEN w' = [w EXCEPT !.invocations = @ + 1, !.pc = "done", !.status = "returned"]
           ELSE w' = [w EXCEPT !.invocations = @ + 1, !.pc = "except", !.exc = o]
    /\ UNCHANGED <<config, table, temps, bucket, nextUri, clock, faults, log, call>>

\* except (ServerError, ...) with attempt < max_retries: sleep, delay *= backoff_factor
RSleep ==
    /\ w.pc = "except"
    /\ WillRetry(w.exc, w.attempt, w.max_retries)
    /\ w' = [w EXCEPT !.last_exception = w.exc,
                      !.sleeps = Append(@, SleepTime(w.delay, w.max_delay)),
                      !.delay = NextDelay(w.delay, w.backoff_factor),
                      !.attempt = @ + 1, !.exc = "none", !.pc = "try"]
    /\ UNCHANGED <<config, table, temps, bucket, nextUri, clock, faults, log, call>>

\* except (ServerError, ...) with attempt = max_retries, or except Exception: raise
RRaise ==
    /\ w.pc = "except"
    /\ ~WillRetry(w.exc, w.attempt, w.max_retries)
    /\ w' = [w EXCEPT !.last_exception = IF IsTransient(w.exc) THEN w.exc ELSE @,
                      !.pc = "done", !.status = "raised",
                      !.err = Reraise(w.exc, w.last_exception)]
    /\ UNCHANGED <<config, table, temps, bucket, nextUri, clock, faults, log, call>>

RNext == RInvoke \/ RSleep \/ RRaise


\* ------------------------------------------------------------ configuration

DEFAULT_CONFIG ==
    [max_retries |-> 3, initial_retry_delay |-> 1, retry_multiplier |-> 2,
     max_retry_delay |-> 60, chunk_size |-> 10000,
     temp_table_prefix |-> "temp_", temp_table_suffix_format |-> "%Y%m%d%H%M%S"]

\* self.config = {**DEFAULT_CONFIG}; if config: self.config.update(config)
MergeConfig(overrides) ==
    [k \in DOMAIN DEFAULT_CONFIG |->
        IF k \in DOMAIN overrides THEN overrides[k] ELSE DEFAULT_CONFIG[k]]

\* The config arguments a caller passes to BigQueryController(...).
Overrides ==
    {[chunk_size |-> cs] : cs \in 1..MaxChunkSize}
    \cup {[chunk_size |-> cs, max_retries |-> 0, initial_retry_delay |-> 5,
           retry_multiplier |-> 3, max_retry_delay |-> 7] : cs \in 1..MaxChunkSize}

DecoratorArgs_fromConfig(fn, cfg) ==
    [max_retries |-> cfg.max_retries, initial_delay |-> cfg.initial_retry_delay,
     backoff_factor |-> cfg.retry_multiplier, max_delay |-> cfg.max_retry_delay]

\* Every decorated method is decorated with `@retry_on_transient_error()`:
\* the decorator's own defaults, whatever self.config holds.
DecoratorArgs(fn, cfg) == DECORATOR_DEFAULTS

\* ------------------------------------------------------------- environment

Calls == {1}

\* Two callers, each with a controller of its own for the same table.
Calls2 == {1, 2}

Dispositions == {"WRITE_APPEND", "WRITE_TRUNCATE", "WRITE_EMPTY", "BOGUS"}

ValidDispositions_any == Dispositions

\* valid_dispositions
ValidDispositions == {"WRITE_APPEND", "WRITE_TRUNCATE", "WRITE_EMPTY"}

\* json_data: a list of n records, one record, something else, or a list with
\* an item that is no record.
JsonKinds == {"list", "dict", "other", "mixed"}

Absent == [exists |-> FALSE, rows |-> EmptyBag, partitioned |-> FALSE]

OldRow == [p |-> 0, id |-> 0, ts |-> 0]

InitTables ==
    {Absent,
     [exists |-> TRUE, rows |-> EmptyBag, partitioned |-> TRUE],
     [exists |-> TRUE, rows |-> SetToBag({OldRow}), partitioned |-> TRUE]}

\* The network steps, named by their place in the code.
NetSteps ==
    {"te_get_table", "upload", "cn_autoload", "cp_get_table", "cp_create_temp",
     "cp_copy", "cp_delete", "cp_get_temp", "cp_rename", "cn_get_table", "cn_reload",
     "ld_get_table", "ld_load", "delete_file", "final_get_table"}

\* Steps that fail transiently on every attempt, in the plans that have such.
AlwaysPlans == {{"ld_load"}, {"cn_reload"}, NetSteps}

FaultPlans ==
    {[left |-> k, always |-> {}] : k \in 0..MaxFaults}
    \cup {[left |-> 0, always |-> A] : A \in AlwaysPlans}

\* What a network step may answer now: "ok" stands for the service's own answer.
Results(step) ==
    IF step \in faults.always THEN {"ServiceUnavailable"}
    ELSE {"ok"} \cup (IF faults.left > 0 THEN {"ServiceUnavailable", "Forbidden"} ELSE {})

Spend(step, o) ==
    IF o = "ok" \/ step \in faults.always THEN faults ELSE [faults EXCEPT !.left = @ - 1]

Ev(p, op, i, res, d, uri) == [p |-> p, op |-> op, i |-> i, res |-> res, d |-> d, uri |-> uri]

\* ------------------------------------------------------------- pure helpers

Min(a, b) == IF a < b THEN a ELSE b

ChunkData_dropTail(data_list, chunk_size) ==
    [k \in 1..(Len(data_list) \div chunk_size) |->
        SubSeq(data_list, (k - 1) * chunk_size + 1, k * chunk_size)]

\* _chunk_data: [data_list[i : i + chunk_size] for i in range(0, len(data_list), chunk_size)]
ChunkData(data_list, chunk_size) ==
    [k \in 1..((Len(data_list) + chunk_size - 1) \div chunk_size) |->
        SubSeq(data_list, (k - 1) * chunk_size + 1, Min(k * chunk_size, Len(data_list)))]

\* chunks = self._chunk_data(data_list) if len(data_list) > chunk_size else [data_list]
Chunks(data_list, chunk_size) ==
    IF Len(data_list) > chunk_size THEN ChunkData(data_list, chunk_size) ELSE <<data_list>>

\* data_list: the records of json_data, by their index.
DataList(kind, n) == [k \in 1..n |-> k]

\* The rows of a staged file: the records of the chunk as they were stamped at upload.
FileRows(p, chunk, ts) ==
    SetToBag({[p |-> p, id |-> chunk[k], ts |-> ts] : k \in DOMAIN chunk})

HasFile(uri) == \E f \in bucket : f.uri = uri

FileOf(uri) == CHOOSE f \in bucket : f.uri = uri

\* client.load_table_from_uri(gcs_uri, table_ref, job_config).result(): the load
\* creates an absent table, appends, overwrites, or refuses a non-empty table.
LoadJob(t, uri, wd) ==
    IF ~HasFile(uri) THEN [res |-> "NotFound", t |-> t]
    ELSE IF ~t.exists
    THEN [res |-> "ok", t |-> [exists |-> TRUE, rows |-> FileOf(uri).rows, partitioned |-> FALSE]]
    ELSE IF wd = "WRITE_EMPTY" /\ BagCardinality(t.rows) > 0
    THEN [res |-> "Conflict", t |-> t]
    ELSE IF wd = "WRITE_TRUNCATE"
    THEN [res |-> "ok", t |-> [t EXCEPT !.rows = FileOf(uri).rows]]
    ELSE [res |-> "ok", t |-> [t EXCEPT !.rows = t.rows (+) FileOf(uri).rows]]

HasTemp(name) == \E t \in temps : t.name = name

TempOf(name) == CHOOSE t \in temps : t.name = name

\* temp_suffix = datetime.now(ZoneInfo("Europe/Berlin")).strftime("%Y%m%d%H%M%S")
TempName(now) == now

\* bigquery.SchemaField(name="import_timestamp", field_type="TIMESTAMP", mode="NULLABLE")
TimestampField == [name |-> "import_timestamp", type |-> "TIMESTAMP"]

\* [field for field in schema if field.name != "import_timestamp"]
RECURSIVE DropImportTimestamp(_)
DropImportTimestamp(schema) ==
    IF schema = <<>> THEN <<>>
    ELSE IF Head(schema).name = "import_timestamp" THEN DropImportTimestamp(Tail(schema))
    ELSE <<Head(schema)>> \o DropImportTimestamp(Tail(schema))

\* next((field for field in schema if field.name == "import_timestamp"), None):
\* the place of the first such field, 0 for None
ImportTimestampField(schema) ==
    IF \E k \in DOMAIN schema : schema[k].name = "import_timestamp"
    THEN CHOOSE k \in DOMAIN schema :
            /\ schema[k].name = "import_timestamp"
            /\ \A j \in 1..(k - 1) : schema[j].name # "import_timestamp"
    ELSE 0

EffectiveSchema_keepWrongType(schema) ==
    IF ImportTimestampField(schema) = 0 THEN Append(schema, TimestampField) ELSE schema

\* _create_partitioned_table: the schema of the temporary table, made of the
\* table's schema and an import_timestamp field of type TIMESTAMP
EffectiveSchema(schema) ==
    LET k == ImportTimestampField(schema) IN
    IF k = 0 THEN Append(schema, TimestampField)
    ELSE IF schema[k].type # "TIMESTAMP"
    THEN Append(DropImportTimestamp(schema), TimestampField)
    ELSE schema

\* ------------------------------------------------------------- call state

IdleCall ==
    [pc |-> "idle", stack |-> <<>>, exc |-> "none",
     kind |-> "list", n |-> 0, items |-> <<>>, wd |-> "WRITE_APPEND", del |-> TRUE,
     ts |-> -1, chunks |-> <<>>, i |-> 0, gcs_uris |-> <<>>, gcs_uri |-> 0,
     table_existed |-> FALSE, temp |-> -1, absent0 |-> FALSE,
     result |-> "none", err |-> "none", ret |-> <<>>]

\* wrapper(): delay = initial_delay, attempt = 0
Frame(fn) ==
    [fn |-> fn, attempt |-> 0, delay |-> DecoratorArgs(fn, config).initial_delay]

\* Where a decorated function starts.
Entry(fn) ==
    CASE fn = "export_to_bigquery" -> "validate"
      [] fn = "_table_exists" -> "te_get_table"
      [] fn = "_create_new_table_with_chunk" -> "cn_autoload"
      [] fn = "_create_partitioned_table" -> "cp_get_table"
      [] fn = "_load_data_from_gcs" -> "ld_get_table"

Push(c, fn) == [c EXCEPT !.stack = Append(@, Frame(fn)), !.pc = Entry(fn)]

Pop(c) == [c EXCEPT !.stack = SubSeq(@, 1, Len(@) - 1)]

Raised(c, e) == [c EXCEPT !.pc = "raising", !.exc = e]

\* return from export_to_bigquery through its wrapper
Returned(c, uris) ==
    [Pop(c) EXCEPT !.pc = "done", !.result = "returned", !.ret = uris]

\* The end of one pass of the chunk loop: the next chunk, or the code after the loop.
NextChunk(c) ==
    IF c.i + 1 < Len(c.chunks)
    THEN [c EXCEPT !.i = @ + 1, !.pc = "upload"]
    ELSE [c EXCEPT !.pc = "final_get_table"]

AfterLoad_neverDelete(c) == NextChunk(c)

AfterLoad_alwaysDelete(c) == [c EXCEPT !.pc = "delete_file"]

\* if delete_gcs_file: self.storage_controller.delete_file(gcs_uri)
AfterLoad(c) == IF c.del THEN [c EXCEPT !.pc = "delete_file"] ELSE NextChunk(c)

\* ------------------------------------------------------------------ actions

\* The objects of json_data as the caller holds them: which of them are
\* records, and the import_timestamp each one carries (-1 for none).
JsonItems(kind, n, bad) ==
    IF kind = "other" THEN <<>>
    ELSE [k \in 1..n |-> [rec |-> ~(kind = "mixed" /\ k \in bad), ts |-> -1]]

Stamp(items, now) == [k \in DOMAIN items |-> [items[k] EXCEPT !.ts = now]]

AddImportTimestamp_checkInLoop(kind, items, now) ==
    IF kind = "other" THEN [err |-> "TypeError", items |-> items]
    ELSE IF \E k \in DOMAIN items : ~items[k].rec
    THEN LET first == CHOOSE k \in DOMAIN items :
                        ~items[k].rec /\ \A j \in 1..(k - 1) : items[j].rec
         IN  [err |-> "TypeError",
              items |-> [k \in DOMAIN items |->
                            IF k < first THEN [items[k] EXCEPT !.ts = now] ELSE items[k]]]
    ELSE [err |-> "none", items |-> Stamp(items, now)]

\* _add_import_timestamp: the type checks come before the first assignment,
\* then every record gets the same timestamp, in place
AddImportTimestamp(kind, items, now) ==
    IF kind = "other" THEN [err |-> "TypeError", items |-> items]
    ELSE IF kind # "dict" /\ \E k \in DOMAIN items : ~items[k].rec
    THEN [err |-> "TypeError", items |-> items]
    ELSE [err |-> "none", items |-> Stamp(items, now)]

\* A caller invokes export_to_bigquery(json_data, write_disposition, delete_gcs_file).
Call(p) ==
    /\ call[p].pc = "idle"
    /\ \E kind \in JsonKinds, n \in 0..MaxRecords, wd \in Dispositions, del \in BOOLEAN,
          bad \in SUBSET (1..2) :
        /\ kind = "dict" => n = 1
        /\ kind = "other" => n = 0
        /\ kind = "mixed" => n = 2
        /\ (kind = "mixed") = (bad # {})
        /\ call' = [call EXCEPT ![p] =
                Push([IdleCall EXCEPT !.kind = kind, !.n = n, !.wd = wd, !.del = del,
                                      !.items = JsonItems(kind, n, bad),
                                      !.absent0 = ~table.exists],
                     "export_to_bigquery")]
    /\ UNCHANGED <<config, table, temps, bucket, nextUri, clock, faults, log, w>>

EmptyBatch_never(data_list) == FALSE

\* if not data_list: return []
EmptyBatch(data_list) == Len(data_list) = 0

\* export_to_bigquery up to the call of _table_exists: the check of the write
\* disposition, _add_import_timestamp, the early return, the chunking.
Validate(p) ==
    LET c == call[p] IN
    /\ c.pc = "validate"
    /\ call' = [call EXCEPT ![p] =
            LET r == AddImportTimestamp(c.kind, c.items, clock)
                stamped == [c EXCEPT !.items = r.items]
            IN  IF c.wd \notin ValidDispositions THEN Raised(c, "ValueError")
                ELSE IF r.err # "none" THEN Raised(stamped, r.err)
                ELSE IF EmptyBatch(DataList(c.kind, c.n))
                THEN Returned([stamped EXCEPT !.ts = clock], <<>>)
                ELSE Push([stamped EXCEPT !.ts = clock,
                                          !.chunks = Chunks(DataList(c.kind, c.n),
                                                            config.chunk_size)],
                          "_table_exists")]
    /\ UNCHANGED <<config, table, temps, bucket, nextUri, clock, faults, log, w>>

\* _table_exists: get_table; NotFound is False, every other error is raised
TableExists(p) ==
    LET c == call[p] IN
    /\ c.pc = "te_get_table"
    /\ \E o \in Results("te_get_table") :
        /\ faults' = Spend("te_get_table", o)
        /\ log' = Append(log, Ev(p, "te_get_table", 0,
                                 IF o = "ok" /\ ~table.exists THEN "NotFound" ELSE o, 0, -1))
        /\ call' = [call EXCEPT ![p] =
                IF o # "ok" THEN Raised(c, o)
                ELSE [Pop(c) EXCEPT !.table_existed = table.exists, !.gcs_uris = <<>>,
                                    !.i = 0, !.pc = "upload"]]
    /\ UNCHANGED <<config, table, temps, bucket, nextUri, clock, w>>

\* storage_controller.upload_to_gcs(chunk, prefix); gcs_uris.append(gcs_uri); then
\* the branch on `not table_existed and i == 0`
Upload(p) ==
    LET c == call[p] IN
    /\ c.pc = "upload"
    /\ \E o \in Results("upload") :
        /\ faults' = Spend("upload", o)
        /\ log' = Append(log, Ev(p, "upload", c.i, o, 0, IF o = "ok" THEN nextUri ELSE -1))
        /\ IF o # "ok"
           THEN /\ call' = [call EXCEPT ![p] = Raised(c, o)]
                /\ UNCHANGED <<bucket, nextUri>>
           ELSE /\ bucket' = bucket \cup
                        {[uri |-> nextUri, p |-> p, rows |-> FileRows(p, c.chunks[c.i + 1], c.ts)]}
                /\ nextUri' = nextUri + 1
                /\ call' = [call EXCEPT ![p] =
                        Push([c EXCEPT !.gcs_uris = Append(@, nextUri), !.gcs_uri = nextUri],
                             IF ~c.table_existed /\ c.i = 0
                             THEN "_create_new_table_with_chunk"
                             ELSE "_load_data_from_gcs")]
    /\ UNCHANGED <<config, table, temps, clock, w>>

\* A load job at step `step`; `after` is the call once the job has succeeded.
LoadStep(p, step, op, after) ==
    LET c == call[p] IN
    /\ c.pc = step
    /\ \E o \in Results(step) :
        LET job == LoadJob(table, c.gcs_uri, c.wd)
            res == IF o = "ok" THEN job.res ELSE o
        IN  /\ faults' = Spend(step, o)
            /\ log' = Append(log, Ev(p, op, c.i, res, 0, c.gcs_uri))
            /\ table' = IF res = "ok" THEN job.t ELSE table
            /\ call' = [call EXCEPT ![p] = IF res = "ok" THEN after ELSE Raised(c, res)]
    /\ UNCHANGED <<config, temps, bucket, nextUri, clock, w>>

\* A get_table(self.table_ref) at step `step`: NotFound when the table is absent;
\* `after` is the call once the table was returned.
GetTableStep(p, step, after) ==
    LET c == call[p] IN
    /\ c.pc = step
    /\ \E o \in Results(step) :
        LET res == IF o = "ok" /\ ~table.exists THEN "NotFound" ELSE o
        IN  /\ faults' = Spend(step, o)
            /\ log' = Append(log, Ev(p, step, c.i, res, 0, -1))
            /\ call' = [call EXCEPT ![p] = IF res = "ok" THEN after ELSE Raised(c, res)]
    /\ UNCHANGED <<config, table, temps, bucket, nextUri, clock, w>>

ToCreatePartitioned(c) == Push(c, "_create_partitioned_table")

\* _create_new_table_with_chunk: the initial load with autodetect=True
CnAutoload(p) == LoadStep(p, "cn_autoload", "autoload", ToCreatePartitioned(call[p]))

ToCreateTemp_deleteFirst(c) == [c EXCEPT !.pc = "cp_delete"]

\* _create_partitioned_table: after get_table, the create of the temporary table
ToCreateTemp(c) == [c EXCEPT !.pc = "cp_create_temp"]

\* _create_partitioned_table: table = self.client.get_table(self.table_ref)
CpGetTable(p) == GetTableStep(p, "cp_get_table", ToCreateTemp(call[p]))

\* _create_partitioned_table: client.create_table(new_table), day-partitioned on
\* import_timestamp, under the name made of the current time
CpCreateTemp(p) ==
    LET c == call[p] IN
    /\ c.pc = "cp_create_temp"
    /\ \E o \in Results("cp_create_temp") :
        LET res == IF o = "ok" /\ HasTemp(TempName(clock)) THEN "Conflict" ELSE o
        IN  /\ faults' = Spend("cp_create_temp", o)
            /\ log' = Append(log, Ev(p, "create_temp", c.i, res, 0, -1))
            /\ temps' = IF res = "ok"
                        THEN temps \cup {[name |-> TempName(clock), rows |-> EmptyBag]}
                        ELSE temps
            /\ call' = [call EXCEPT ![p] =
                    IF res = "ok" THEN [c EXCEPT !.temp = TempName(clock), !.pc = "cp_copy"]
                    ELSE Raised(c, res)]
    /\ UNCHANGED <<config, table, bucket, nextUri, clock, w>>

\* _create_partitioned_table: SELECT * FROM the table into the temporary table,
\* WRITE_TRUNCATE
CpCopy(p) ==
    LET c == call[p] IN
    /\ c.pc = "cp_copy"
    /\ \E o \in Results("cp_copy") :
        LET res == IF o = "ok" /\ ~table.exists THEN "NotFound" ELSE o
        IN  /\ faults' = Spend("cp_copy", o)
            /\ log' = Append(log, Ev(p, "copy", c.i, res, 0, -1))
            /\ temps' = IF res = "ok"
                        THEN {t \in temps : t.name # c.temp}
                             \cup {[name |-> c.temp, rows |-> table.rows]}
                        ELSE temps
            /\ call' = [call EXCEPT ![p] =
                    IF res = "ok" THEN [c EXCEPT !.pc = "cp_delete"] ELSE Raised(c, res)]
    /\ UNCHANGED <<config, table, bucket, nextUri, clock, w>>

\* _create_partitioned_table: client.delete_table(self.table_ref)
CpDelete(p) ==
    LET c == call[p] IN
    /\ c.pc = "cp_delete"
    /\ \E o \in Results("cp_delete") :
        LET res == IF o = "ok" /\ ~table.exists THEN "NotFound" ELSE o
        IN  /\ faults' = Spend("cp_delete", o)
            /\ log' = Append(log, Ev(p, "delete_table", c.i, res, 0, -1))
            /\ table' = IF res = "ok" THEN Absent ELSE table
            /\ call' = [call EXCEPT ![p] =
                    IF res = "ok" THEN [c EXCEPT !.pc = "cp_get_temp"] ELSE Raised(c, res)]
    /\ UNCHANGED <<config, temps, bucket, nextUri, clock, w>>

\* _create_partitioned_table: client.get_table(temp_table_ref)
CpGetTemp(p) ==
    LET c == call[p] IN
    /\ c.pc = "cp_get_temp"
    /\ \E o \in Results("cp_get_temp") :
        LET res == IF o = "ok" /\ ~HasTemp(c.temp) THEN "NotFound" ELSE o
        IN  /\ faults' = Spend("cp_get_temp", o)
            /\ log' = Append(log, Ev(p, "get_temp", c.i, res, 0, -1))
            /\ call' = [call EXCEPT ![p] =
                    IF res = "ok" THEN [c EXCEPT !.pc = "cp_rename"] ELSE Raised(c, res)]
    /\ UNCHANGED <<config, table, temps, bucket, nextUri, clock, w>>

\* _create_partitioned_table: ALTER TABLE temp RENAME TO table, then the return
\* into _create_new_table_with_chunk
CpRename(p) ==
    LET c == call[p] IN
    /\ c.pc = "cp_rename"
    /\ \E o \in Results("cp_rename") :
        LET res == IF o # "ok" THEN o
                   ELSE IF ~HasTemp(c.temp) THEN "NotFound"
                   ELSE IF table.exists THEN "Conflict" ELSE "ok"
        IN  /\ faults' = Spend("cp_rename", o)
            /\ log' = Append(log, Ev(p, "rename", c.i, res, 0, -1))
            /\ table' = IF res = "ok"
                        THEN [exists |-> TRUE, rows |-> TempOf(c.temp).rows, partitioned |-> TRUE]
                        ELSE table
            /\ temps' = IF res = "ok" THEN {t \in temps : t.name # c.temp} ELSE temps
            /\ call' = [call EXCEPT ![p] =
                    IF res = "ok" THEN [Pop(c) EXCEPT !.pc = "cn_get_table"] ELSE Raised(c, res)]
    /\ UNCHANGED <<config, bucket, nextUri, clock, w>>

ToReload(c) == [c EXCEPT !.pc = "cn_reload"]

\* _create_new_table_with_chunk: schema=self.client.get_table(self.table_ref).schema
CnGetTable(p) == GetTableStep(p, "cn_get_table", ToReload(call[p]))

\* The return of a load into export_to_bigquery's loop.
LoadReturned(c) == AfterLoad([Pop(c) EXCEPT !.table_existed = TRUE])

\* _create_new_table_with_chunk: the second load of the same file, with the
\* table's schema; then `table_existed = True` in export_to_bigquery
CnReload(p) == LoadStep(p, "cn_reload", "load", LoadReturned(call[p]))

ToLoad_deleteFirst(c) == [c EXCEPT !.pc = "delete_file"]

\* _load_data_from_gcs: after get_table, the load job
ToLoad(c) == [c EXCEPT !.pc = "ld_load"]

\* _load_data_from_gcs: table = self.client.get_table(self.table_ref)
LdGetTable(p) == GetTableStep(p, "ld_get_table", ToLoad(call[p]))

LdReturned(c) == AfterLoad(Pop(c))

\* _load_data_from_gcs: the load job with the table's schema
LdLoad(p) == LoadStep(p, "ld_load", "load", LdReturned(call[p]))

\* StorageController.delete_file: every exception is caught and logged
DeleteFile_after(c, o) == NextChunk(c)

\* storage_controller.delete_file(gcs_uri)
DeleteFile(p) ==
    LET c == call[p] IN
    /\ c.pc = "delete_file"
    /\ \E o \in Results("delete_file") :
        LET res == IF o = "ok" /\ ~HasFile(c.gcs_uri) THEN "NotFound" ELSE o
        IN  /\ faults' = Spend("delete_file", o)
            /\ log' = Append(log, Ev(p, "delete_file", c.i, res, 0, c.gcs_uri))
            /\ bucket' = IF res = "ok" THEN {f \in bucket : f.uri # c.gcs_uri} ELSE bucket
            /\ call' = [call EXCEPT ![p] = DeleteFile_after(c, IF res = "NotFound" THEN "ok" ELSE res)]
    /\ UNCHANGED <<config, table, temps, nextUri, clock, w>>

ToReturn(c) == Returned(c, c.gcs_uris)

\* if gcs_uris: table = self.client.get_table(self.table_ref); return gcs_uris
FinalGetTable(p) == GetTableStep(p, "final_get_table", ToReturn(call[p]))

\* The wrapper around the function that raised: a transient error with retries
\* left is slept on and the function is called again.
Restart_resumeRename(c, fn) ==
    IF fn = "_create_partitioned_table" /\ c.temp # -1 /\ ~table.exists
    THEN "cp_get_temp"
    ELSE Entry(fn)

\* for attempt in range(max_retries + 1): return func(*args, **kwargs), the
\* wrapped function runs again from its first statement
Restart(c, fn) == Entry(fn)

HandleRetry(p) ==
    LET c == call[p]
        f == c.stack[Len(c.stack)]
        a == DecoratorArgs(f.fn, config)
    IN  /\ c.pc = "raising"
        /\ WillRetry(c.exc, f.attempt, a.max_retries)
        /\ log' = Append(log, Ev(p, "sleep", Len(c.stack), f.fn, SleepTime(f.delay, a.max_delay), -1))
        /\ clock' = clock + SleepTime(f.delay, a.max_delay)
        /\ call' = [call EXCEPT ![p] =
                [c EXCEPT !.stack[Len(c.stack)] =
                              [f EXCEPT !.attempt = @ + 1,
                                        !.delay = NextDelay(f.delay, a.backoff_factor)],
                          !.exc = "none", !.pc = Restart(c, f.fn)]]
        /\ UNCHANGED <<config, table, temps, bucket, nextUri, faults, w>>

\* The wrapper raises: a non-transient error, or a transient one with no retry
\* left. The error reaches the next wrapper, or the caller of export_to_bigquery.
HandleRaise(p) ==
    LET c == call[p]
        f == c.stack[Len(c.stack)]
        a == DecoratorArgs(f.fn, config)
    IN  /\ c.pc = "raising"
        /\ ~WillRetry(c.exc, f.attempt, a.max_retries)
        /\ log' = Append(log, Ev(p, "raise", Len(c.stack), f.fn, 0, -1))
        /\ call' = [call EXCEPT ![p] =
                IF Len(c.stack) = 1
                THEN [Pop(c) EXCEPT !.pc = "done", !.result = "raised",
                                    !.err = Reraise(c.exc, "none"), !.exc = "none"]
                ELSE Pop(c)]
        /\ UNCHANGED <<config, table, temps, bucket, nextUri, clock, faults, w>>

Init ==
    /\ config \in {MergeConfig(o) : o \in Overrides}
    /\ table \in InitTables
    /\ temps = {}
    /\ bucket = {}
    /\ nextUri = 1
    /\ clock = 0
    /\ faults \in FaultPlans
    /\ log = <<>>
    /\ call = [p \in Calls |-> IdleCall]
    /\ w = IdleW

Next ==
    \E p \in Calls :
        \/ Call(p)
        \/ Validate(p)
        \/ TableExists(p)
        \/ Upload(p)
        \/ CnAutoload(p)
        \/ CpGetTable(p)
        \/ CpCreateTemp(p)
        \/ CpCopy(p)
        \/ CpDelete(p)
        \/ CpGetTemp(p)
        \/ CpRename(p)
        \/ CnGetTable(p)
        \/ CnReload(p)
        \/ LdGetTable(p)
        \/ LdLoad(p)
        \/ DeleteFile(p)
        \/ FinalGetTable(p)
        \/ HandleRetry(p)
        \/ HandleRaise(p)

Spec == Init /\ [][Next]_vars

\* SpecTwo: two export calls of one record each, overlapping in any way,
\* against the same initially absent table, followed for the first MaxEvents
\* network steps. No failure is injected; what the service itself refuses
\* (NotFound, Conflict) is no transient error, so no wrapper retries.
CallOne(p) ==
    /\ call[p].pc = "idle"
    /\ \E wd \in {"WRITE_APPEND", "WRITE_TRUNCATE"} :
        call' = [call EXCEPT ![p] =
                Push([IdleCall EXCEPT !.kind = "list", !.n = 1, !.wd = wd, !.del = TRUE,
                                      !.items = JsonItems("list", 1, {}),
                                      !.absent0 = ~table.exists],
                     "export_to_bigquery")]
    /\ UNCHANGED <<config, table, temps, bucket, nextUri, clock, faults, log, w>>

Init2 ==
    /\ config = MergeConfig([chunk_size |-> 1])
    /\ table = Absent
    /\ temps = {}
    /\ bucket = {}
    /\ nextUri = 1
    /\ clock = 0
    /\ faults = [left |-> 0, always |-> {}]
    /\ log = <<>>
    /\ call = [p \in Calls2 |-> IdleCall]
    /\ w = IdleW

\* The part of the two calls that is followed.
WithinEvents == Len(log) < MaxEvents

\* The network steps of a call, as long as the calls are followed.
TwoTableExists(p) == WithinEvents /\ TableExists(p)

TwoUpload(p) == WithinEvents /\ Upload(p)

TwoCnAutoload(p) == WithinEvents /\ CnAutoload(p)

TwoCpGetTable(p) == WithinEvents /\ CpGetTable(p)

TwoCpCreateTemp(p) == WithinEvents /\ CpCreateTemp(p)

TwoCpCopy(p) == WithinEvents /\ CpCopy(p)

TwoCpDelete(p) == WithinEvents /\ CpDelete(p)

TwoCpGetTemp(p) == WithinEvents /\ CpGetTemp(p)

TwoCpRename(p) == WithinEvents /\ CpRename(p)

TwoCnGetTable(p) == WithinEvents /\ CnGetTable(p)

TwoCnReload(p) == WithinEvents /\ CnReload(p)

TwoLdGetTable(p) == WithinEvents /\ LdGetTable(p)

TwoLdLoad(p) == WithinEvents /\ LdLoad(p)

TwoDeleteFile(p) == WithinEvents /\ DeleteFile(p)

TwoFinalGetTable(p) == WithinEvents /\ FinalGetTable(p)

Next2 ==
    \E p \in Calls2 :
        \/ CallOne(p)
        \/ Validate(p)
        \/ TwoTableExists(p)
        \/ TwoUpload(p)
        \/ TwoCnAutoload(p)
        \/ TwoCpGetTable(p)
        \/ TwoCpCreateTemp(p)
        \/ TwoCpCopy(p)
        \/ TwoCpDelete(p)
        \/ TwoCpGetTemp(p)
        \/ TwoCpRename(p)
        \/ TwoCnGetTable(p)
        \/ TwoCnReload(p)
        \/ TwoLdGetTable(p)
        \/ TwoLdLoad(p)
        \/ TwoDeleteFile(p)
        \/ TwoFinalGetTable(p)
        \/ HandleRaise(p)

SpecTwo == Init2 /\ [][Next2]_vars

\* A call that has started keeps running: export_to_bigquery is one thread of
\* control and no step of it waits for anything but the service's answer.
FairSpec == Spec /\ WF_vars(Next)

\* SpecRetry: the arguments of the decorator and the wrapped operation's outcomes.
RInit ==
    /\ config = MergeConfig([chunk_size |-> 1])
    /\ table = Absent
    /\ temps = {}
    /\ bucket = {}
    /\ nextUri = 1
    /\ clock = 0
    /\ faults = [left |-> 0, always |-> {}]
    /\ log = <<>>
    /\ call = [p \in Calls |-> IdleCall]
    /\ w \in {WrapperEntry(m, d, b, x, plan, rest) :
                m \in 0..MaxRetriesArg, d \in {1, 2}, b \in {1, 2, 3}, x \in {3, 60},
                plan \in SeqsUpTo(Outcomes, MaxPlan),
                rest \in {"ok", "ServiceUnavailable", "ValueError"}}

SpecRetry == RInit /\ [][RNext]_vars

\* SpecSchema: the schema computation of _create_partitioned_table alone, on a
\* table of any schema of up to MaxFields fields with distinct names.
FieldNames == {"id", "name", "amount", "import_timestamp"}

FieldTypes == {"STRING", "INTEGER", "TIMESTAMP"}

Fields == [name : FieldNames, type : FieldTypes]

Schemas ==
    {s \in SeqsUpTo(Fields, MaxFields) :
        \A j, k \in DOMAIN s : j # k => s[j].name # s[k].name}

SInit ==
    /\ config = MergeConfig([chunk_size |-> 1])
    /\ table \in {[exists |-> TRUE, rows |-> EmptyBag, partitioned |-> FALSE, schema |-> s] :
                    s \in Schemas}
    /\ temps = {}
    /\ bucket = {}
    /\ nextUri = 1
    /\ clock = 0
    /\ faults = [left |-> 0, always |-> {}]
    /\ log = <<>>
    /\ call = [p \in Calls |-> IdleCall]
    /\ w = IdleW

\* new_table = bigquery.Table(temp_table_ref, schema=schema); create_table(new_table)
SCreateTemp ==
    /\ temps = {}
    /\ temps' = {[name |-> TempName(clock), rows |-> EmptyBag,
                  schema |-> EffectiveSchema(table.schema)]}
    /\ UNCHANGED <<config, table, bucket, nextUri, clock, faults, log, call, w>>

SNext == SCreateTemp

SpecSchema == SInit /\ [][SNext]_vars

\* ------------------------------------------------------------------- claims

\* The places of the log where call p did one of `ops` for chunk i.
Events(p, ops, i) ==
    {k \in DOMAIN log : log[k].p = p /\ log[k].op \in ops /\ log[k].i = i}

EventsOk(p, ops, i) == {k \in Events(p, ops, i) : log[k].res = "ok"}

AllEvents(p, ops) == {k \in DOMAIN log : log[k].p = p /\ log[k].op \in ops}

ChunkIndexes(p) == 0..(Len(call[p].chunks) - 1)

Succeeded(p) == call[p].result = "returned"

TableHolds(p, id) == \E r \in BagToSet(table.rows) : r.p = p /\ r.id = id

\* C1: at the end of every successful export of a non-empty batch the
\* destination table exists and holds every record of the batch.
C1_TableHoldsBatch ==
    \A p \in Calls :
        (Succeeded(p) /\ call[p].n > 0)
            => (table.exists /\ \A id \in 1..call[p].n : TableHolds(p, id))

\* The steps the claim names: the staging upload, the load of a chunk, the
\* load with autodetection, and the partition migration (completed by its rename).
EffectSteps == {"upload", "autoload", "load", "rename"}

\* C2: a step of an export call that has succeeded (an upload, a load, the
\* autodetect load, the partition migration) is not executed a second time in
\* that call, whatever is retried later.
C2_NoSucceededStepRerun ==
    \A a, b \in DOMAIN log :
        (a < b /\ log[a].p = log[b].p /\ log[a].op \in EffectSteps /\ log[a].res = "ok")
            => ~(log[b].op = log[a].op /\ log[b].i = log[a].i)

\* C3: once the wrapper of a chunk's load has raised (its retries did not
\* resolve the failure), the call issues no upload and no load job any more.
C3_AbortOnUnresolvedFailure ==
    \A a, b \in DOMAIN log :
        (a < b /\ log[a].p = log[b].p /\ log[a].op = "raise"
              /\ log[a].res \in {"_load_data_from_gcs", "_create_new_table_with_chunk"})
            => log[b].op \notin {"upload", "load", "autoload"}

\* C4: a successful export against an initially absent table has loaded with
\* autodetection exactly once, has completed the partition migration exactly
\* once, and leaves the table day-partitioned.
C4_OneCreateOneMigration ==
    \A p \in Calls :
        (Succeeded(p) /\ call[p].absent0 /\ call[p].n > 0)
            => /\ Cardinality(EventsOk(p, {"autoload"}, 0)) = 1
               /\ Cardinality(EventsOk(p, {"rename"}, 0)) = 1
               /\ table.partitioned

\* One upload and one load job for every chunk, chunk i loaded before chunk
\* i+1 is uploaded, and a delete for every staged file or for none.
OnePairPerChunk(p) ==
    /\ \A i \in ChunkIndexes(p) :
        /\ Cardinality(Events(p, {"upload"}, i)) = 1
        /\ Cardinality(Events(p, {"load", "autoload"}, i)) = 1
        /\ \A u \in Events(p, {"upload"}, i), l \in Events(p, {"load"}, i) : u < l
        /\ \A l \in Events(p, {"load"}, i), u \in Events(p, {"upload"}, i + 1) : l < u
        /\ Cardinality(Events(p, {"delete_file"}, i)) = IF call[p].del THEN 1 ELSE 0
        /\ \A u \in Events(p, {"upload"}, i), d \in Events(p, {"delete_file"}, i) :
              log[d].uri = log[u].uri
    /\ \A k \in AllEvents(p, {"upload", "load", "autoload", "delete_file"}) :
          log[k].i \in ChunkIndexes(p)

ExistingTableManyChunks(p) ==
    /\ call[p].pc = "done"
    /\ call[p].wd \in ValidDispositions
    /\ call[p].kind = "list"
    /\ ~call[p].absent0
    /\ call[p].n > config.chunk_size

NoStepFailed(p) ==
    \A k \in DOMAIN log : log[k].p = p => (log[k].res = "ok" /\ log[k].op \notin {"sleep", "raise"})

StagedBy(p) == {log[k].uri : k \in {j \in AllEvents(p, {"upload"}) : log[j].res = "ok"}}

\* C6: after a successful export with delete_gcs_file=true no file staged by
\* the call is left in the bucket; with delete_gcs_file=false every one is.
C6_StagedFilesCleaned ==
    \A p \in Calls :
        Succeeded(p) =>
            IF call[p].del
            THEN \A u \in StagedBy(p) : ~HasFile(u)
            ELSE \A u \in StagedBy(p) : HasFile(u)

RECURSIVE Pow(_, _)
Pow(b, e) == IF e = 0 THEN 1 ELSE b * Pow(b, e - 1)

\* C7: the retries and the sleeps of the network steps are those of the merged
\* configuration: every sleep is one of the max_retries sleeps it allows.
C7_RetriesFollowConfig ==
    \A k \in DOMAIN log :
        log[k].op = "sleep" =>
            \E j \in 0..(config.max_retries - 1) :
                log[k].d = SleepTime(config.initial_retry_delay * Pow(config.retry_multiplier, j),
                                     config.max_retry_delay)

\* The operation fails transiently on its first k invocations and then succeeds.
FailsThenSucceeds(k) ==
    /\ \A j \in 1..k : Outcome(j) \in TransientErrors
    /\ Outcome(k + 1) = "ok"

\* C8: an operation that fails transiently exactly k < max_retries times and
\* then succeeds: the wrapped call returns after exactly k+1 invocations and
\* exactly k sleeps (and has done no more than that on the way).
C8_ReturnsAfterKFailures ==
    \A k \in 0..MaxRetriesArg :
        (w.pc # "idle" /\ FailsThenSucceeds(k) /\ k < w.max_retries)
            => /\ w.status # "raised"
               /\ w.invocations <= k + 1
               /\ Len(w.sleeps) <= k
               /\ w.status = "returned" => (w.invocations = k + 1 /\ Len(w.sleeps) = k)
               /\ w.pc = "done" => w.status = "returned"

C8_Witness ==
    /\ w.status = "returned"
    /\ FailsThenSucceeds(2)
    /\ w.max_retries = 3
    /\ w.invocations = 3
    /\ Len(w.sleeps) = 2

AlwaysFails == \A j \in 1..(w.max_retries + 1) : Outcome(j) \in TransientErrors

\* C9: an operation that fails transiently on every invocation: the wrapper
\* sleeps exactly max_retries times, invokes it max_retries+1 times and then
\* raises the last transient error; it never returns.
C9_RaisesAfterMaxRetries ==
    (w.pc # "idle" /\ AlwaysFails)
        => /\ w.status # "returned"
           /\ w.invocations <= w.max_retries + 1
           /\ Len(w.sleeps) <= w.max_retries
           /\ w.pc = "done" =>
                /\ w.status = "raised"
                /\ Len(w.sleeps) = w.max_retries
                /\ w.invocations = w.max_retries + 1
                /\ w.err = Outcome(w.max_retries + 1)

C9_Witness ==
    /\ AlwaysFails
    /\ w.max_retries = 2
    /\ w.status = "raised"
    /\ Len(w.sleeps) = 2
    /\ w.invocations = 3
    /\ w.err = "TimeoutError"
    /\ Outcome(1) = "ServiceUnavailable"

NonTransient(o) == o # "ok" /\ o \notin TransientErrors

\* C10: an error that is not transient (ValueError and TypeError among them)
\* is raised by the wrapper when it first occurs: invocation j raising it is
\* the last invocation, no sleep follows it, and the wrapper raises that error.
C10_NonTransientRaisedAtOnce ==
    \A j \in 1..w.invocations :
        NonTransient(Outcome(j))
            => /\ w.invocations = j
               /\ Len(w.sleeps) = j - 1
               /\ w.pc \in {"except", "done"}
               /\ w.pc = "done" => (w.status = "raised" /\ w.err = Outcome(j))

C10_Witness ==
    /\ w.pc = "done"
    /\ w.status = "raised"
    /\ w.err = "TypeError"
    /\ w.invocations = 2
    /\ Len(w.sleeps) = 1
    /\ w.max_retries = 3


\* C11: the j-th sleep of one wrapped call (j = 0, 1, ...) lasts
\* min(initial_delay * backoff_factor^j, max_delay); so no sleep exceeds
\* max_delay, and with a factor >= 1 the sleeps never decrease.
C11_SleepSchedule ==
    /\ \A j \in 1..Len(w.sleeps) :
        /\ w.sleeps[j] = Min(w.initial_delay * Pow(w.backoff_factor, j - 1), w.max_delay)
        /\ w.sleeps[j] <= w.max_delay
    /\ w.backoff_factor >= 1 =>
        \A j \in 1..(Len(w.sleeps) - 1) : w.sleeps[j] <= w.sleeps[j + 1]

C11_Witness ==
    /\ w.initial_delay = 1
    /\ w.backoff_factor = 2
    /\ w.max_delay = 3
    /\ w.sleeps = <<1, 2, 3>>


CeilDiv(n, c) == (n + c - 1) \div c

RECURSIVE Flatten(_)
Flatten(chunks) ==
    IF chunks = <<>> THEN <<>> ELSE Head(chunks) \o Flatten(Tail(chunks))

\* C12: for a batch of N records and chunk_size C > 0 the chunks export uses
\* are ceil(N / C) in number, each non-empty and of at most C records (exactly
\* C except possibly the last), their concatenation is the batch in order, and
\* a batch with N <= C is one chunk.
C12_ChunksPartitionBatch ==
    \A p \in Calls :
        LET c == call[p]
            C == config.chunk_size
            batch == DataList(c.kind, c.n)
        IN  /\ AllEvents(p, {"te_get_table", "upload"}) # {} => c.chunks # <<>>
            /\ c.pc = "upload" => c.i + 1 \in 1..Len(c.chunks)
            /\ c.chunks # <<>> =>
                /\ Len(c.chunks) = CeilDiv(c.n, C)
                /\ \A k \in 1..Len(c.chunks) :
                    /\ Len(c.chunks[k]) \in 1..C
                    /\ k < Len(c.chunks) => Len(c.chunks[k]) = C
                /\ Flatten(c.chunks) = batch
                /\ c.n <= C => c.chunks = <<batch>>

C12_Witness ==
    \E p \in Calls :
        /\ call[p].n = 3
        /\ config.chunk_size = 2
        /\ call[p].chunks = <<<<1, 2>>, <<3>>>>
        /\ Succeeded(p)

\* The network calls of call p: every logged event but the wrappers' own.
NetworkEvents(p) == {k \in DOMAIN log : log[k].p = p /\ log[k].op \notin {"sleep", "raise"}}

\* C13: export of an empty list with a valid write_disposition returns the
\* empty list and makes no network call: no lookup, no upload, no load, no
\* delete, and the table and the bucket are as they were.
C13_EmptyBatchNoNetwork ==
    \A p \in Calls :
        (/\ call[p].pc # "idle"
         /\ call[p].kind = "list"
         /\ call[p].n = 0
         /\ call[p].wd \in {"WRITE_APPEND", "WRITE_TRUNCATE", "WRITE_EMPTY"})
            => /\ NetworkEvents(p) = {}
               /\ AllEvents(p, {"sleep", "raise"}) = {}
               /\ bucket = {}
               /\ table.exists = ~call[p].absent0
               /\ call[p].pc = "done" => (Succeeded(p) /\ call[p].ret = <<>>)

C13_Witness ==
    \E p \in Calls :
        /\ call[p].kind = "list"
        /\ call[p].n = 0
        /\ call[p].wd = "WRITE_APPEND"
        /\ Succeeded(p)
        /\ call[p].ret = <<>>
        /\ log = <<>>

\* C14: export with a write_disposition outside the three valid values raises
\* the invalid-argument error at once, whatever the records argument is: no
\* network call is made and nothing is retried.
C14_InvalidDispositionRaises ==
    \A p \in Calls :
        (/\ call[p].pc # "idle"
         /\ call[p].wd \notin {"WRITE_APPEND", "WRITE_TRUNCATE", "WRITE_EMPTY"})
            => /\ NetworkEvents(p) = {}
               /\ AllEvents(p, {"sleep"}) = {}
               /\ bucket = {}
               /\ call[p].pc \in {"validate", "raising", "done"}
               /\ call[p].pc = "done" => (call[p].result = "raised" /\ call[p].err = "ValueError")

C14_Witness ==
    \E p \in Calls :
        /\ call[p].wd = "BOGUS"
        /\ call[p].kind = "other"
        /\ call[p].result = "raised"
        /\ call[p].err = "ValueError"
        /\ NetworkEvents(p) = {}


\* The import_timestamp values of the rows call p has put into the table.
LoadedStamps(p) == {r.ts : r \in {x \in BagToSet(table.rows) : x.p = p}}

\* C15: all the records one export call loads carry the same
\* import_timestamp: it is captured once per invocation, also across chunks
\* and when steps of the call are retried.
C15_OneTimestampPerCall ==
    \A p \in Calls : Succeeded(p) => Cardinality(LoadedStamps(p)) <= 1

\* C16: the list a successful export returns holds, in staging order, the URI
\* of every file uploaded during that call, deleted or not; none is missing.
C16_ReturnsEveryStagedUri ==
    \A p \in Calls :
        Succeeded(p) =>
            /\ {call[p].ret[k] : k \in DOMAIN call[p].ret} = StagedBy(p)
            /\ Len(call[p].ret) = Cardinality(StagedBy(p))
            /\ \A j, k \in DOMAIN call[p].ret : j < k => call[p].ret[j] < call[p].ret[k]

\* C17: no failure is swallowed except a not-found on the deletion of a staged
\* file: when a deletion fails for another reason, export fails with that error.
C17_DeleteFailureRaised ==
    \A p \in Calls :
        \A k \in AllEvents(p, {"delete_file"}) :
            (log[k].res \notin {"ok", "NotFound"} /\ call[p].pc = "done")
                => (call[p].result = "raised" /\ call[p].err = log[k].res)


MigrationOps == {"create_temp", "copy", "delete_table", "rename"}

\* C18: once the table is partitioned, no step of the migration (create the
\* temporary table, copy, delete the original, rename) is executed again for
\* it, neither later in the same export call, retries included, nor in a
\* later call.
C18_NoMigrationOncePartitioned ==
    [][(table.exists /\ table.partitioned /\ Len(log') = Len(log) + 1)
            => ~(log'[Len(log')].op \in MigrationOps /\ log'[Len(log')].res = "ok")]_vars

\* The successful load jobs of call p for the staged file uri (in the create
\* path the load that ends _create_new_table_with_chunk).
LoadedOk(p, uri) == {k \in AllEvents(p, {"load"}) : log[k].res = "ok" /\ log[k].uri = uri}

\* C19: the deletion of a staged file is attempted only after the load of its
\* chunk has succeeded; a staged file whose load has not succeeded is still in
\* the bucket.
C19_DeleteOnlyAfterLoad ==
    \A p \in Calls :
        /\ \A d \in AllEvents(p, {"delete_file"}) :
            \E l \in LoadedOk(p, log[d].uri) : l < d /\ log[l].i = log[d].i
        /\ \A u \in StagedBy(p) : LoadedOk(p, u) = {} => HasFile(u)

C19_Witness ==
    \E p \in Calls :
        /\ call[p].result = "raised"
        /\ \E d \in AllEvents(p, {"delete_file"}) : log[d].res = "ok" /\ ~HasFile(log[d].uri)
        /\ \E k \in AllEvents(p, {"load"}) :
            /\ log[k].res = "Forbidden"
            /\ LoadedOk(p, log[k].uri) = {}
            /\ HasFile(log[k].uri)

\* The existence checks of call p that gave an answer.
ExistenceChecks(p) ==
    {k \in AllEvents(p, {"te_get_table"}) : log[k].res \in {"ok", "NotFound"}}

\* C20: within one export call the existence of the table is determined once,
\* before any upload; the create-with-autodetect path is taken only for the
\* first chunk and only when that check reported the table absent; every
\* other chunk is loaded through a lookup of the table's schema.
C20_ExistenceDeterminedOnce ==
    \A p \in Calls :
        /\ Cardinality(ExistenceChecks(p)) <= 1
        /\ \A u \in AllEvents(p, {"upload"}) : \E k \in ExistenceChecks(p) : k < u
        /\ \A a \in AllEvents(p, {"autoload"}) :
            /\ log[a].i = 0
            /\ \E k \in ExistenceChecks(p) : k < a /\ log[k].res = "NotFound"
        /\ \A l \in AllEvents(p, {"load"}) :
            log[l].i > 0 => \E g \in Events(p, {"ld_get_table"}, log[l].i) :
                                g < l /\ log[g].res = "ok"


\* The events of call p between places a and b of the log.
Between(p, a, b) == {k \in DOMAIN log : a < k /\ k < b /\ log[k].p = p}

\* The original table is deleted only after, in the same run of the migration,
\* the temporary table was created and the copy completed; the rename is
\* issued right after the temporary table was looked up.
MigrationOrdered ==
    \A p \in Calls :
        /\ \A d \in AllEvents(p, {"delete_table"}) :
            \E t \in AllEvents(p, {"create_temp"}), c \in AllEvents(p, {"copy"}) :
                /\ t < c /\ c < d
                /\ log[t].res = "ok" /\ log[c].res = "ok"
                /\ \A k \in Between(p, t, d) : k = c
        /\ \A r \in AllEvents(p, {"rename"}) :
            \E g \in AllEvents(p, {"get_temp"}) :
                g < r /\ log[g].res = "ok" /\ Between(p, g, r) = {}

\* A step that removes the table leaves a temporary table holding its rows,
\* and a temporary table goes away only by becoming the table, rows included.
RowsKept ==
    /\ (table.exists /\ ~table'.exists) => \E t \in temps' : t.rows = table.rows
    /\ ~table.exists =>
        \A t \in temps :
            \/ t \in temps'
            \/ table'.exists /\ table'.rows = t.rows

\* C21: in the migration the original table is deleted only after the
\* temporary table was created and the copy into it completed, and the rename
\* is issued only after the temporary table was confirmed to exist; so in
\* every state, after a failure at any step too, the rows of the original
\* table are held by the table or by the temporary table.
C21_MigrationKeepsRows == []MigrationOrdered /\ [][RowsKept]_vars

C21_Witness ==
    \E p \in Calls :
        /\ call[p].result = "raised"
        /\ AllEvents(p, {"delete_table"}) # {}
        /\ ~table.exists
        /\ \E t \in temps : t.name = call[p].temp /\ t.rows # EmptyBag


\* The failures of call p between the delete of the original table and the
\* completion of the rename: a failed lookup of the temporary table or a
\* failed rename, after a delete that succeeded.
WindowFailures(p) ==
    {f \in AllEvents(p, {"get_temp", "rename"}) :
        /\ log[f].res # "ok"
        /\ \E d \in AllEvents(p, {"delete_table"}) :
            d < f /\ log[d].res = "ok" /\ \A k \in Between(p, d, f) : log[k].op = "get_temp"}

OtherFields(schema) == SelectSeq(schema, LAMBDA f : f.name # "import_timestamp")

\* C23: the schema computed for the temporary table has exactly one
\* import_timestamp field, of type TIMESTAMP: appended when the table's
\* schema has none, dropped and re-added at the end when it has another type,
\* left in place when it is TIMESTAMP already; every other field is kept, in
\* its original relative order.
C23_EffectiveSchema ==
    \A t \in temps :
        LET old == table.schema
            new == t.schema
            its == {k \in DOMAIN new : new[k].name = "import_timestamp"}
            was == {k \in DOMAIN old : old[k].name = "import_timestamp"}
        IN  /\ Cardinality(its) = 1
            /\ \A k \in its : new[k].type = "TIMESTAMP"
            /\ OtherFields(new) = OtherFields(old)
            /\ was = {} => new = Append(old, TimestampField)
            /\ \A k \in was :
                IF old[k].type = "TIMESTAMP" THEN new = old
                ELSE new = Append(OtherFields(old), TimestampField)

C23_Witness ==
    /\ table.schema = <<[name |-> "import_timestamp", type |-> "STRING"],
                        [name |-> "id", type |-> "INTEGER"]>>
    /\ \E t \in temps :
        t.schema = <<[name |-> "id", type |-> "INTEGER"], TimestampField>>


\* No wrapper of call p has used more attempts than the decorator allows, and
\* the wrappers nest as the decorated methods call each other.
AttemptsBounded ==
    \A p \in Calls :
        /\ Len(call[p].stack) <= 3
        /\ \A k \in DOMAIN call[p].stack :
            call[p].stack[k].attempt <= DECORATOR_DEFAULTS.max_retries
        /\ Cardinality(AllEvents(p, {"sleep"}))
                <= Pow(DECORATOR_DEFAULTS.max_retries + 1, 3) * (Len(call[p].chunks) + 2)

\* C24: every export call terminates: it returns or raises after finitely
\* many network steps and sleeps, also when every network call fails
\* transiently on every attempt.
C24_Terminates ==
    /\ []AttemptsBounded
    /\ \A p \in Calls : (call[p].pc # "idle") ~> (call[p].pc = "done")

C24_Witness ==
    \E p \in Calls :
        /\ faults.always = NetSteps
        /\ call[p].pc = "done"
        /\ call[p].result = "raised"
        /\ Cardinality(AllEvents(p, {"sleep"})) = 15
        /\ Cardinality(AllEvents(p, {"te_get_table"})) = 16


\* How many rows of the table are record id of call p.
CopiesOf(p, id) ==
    LET rs == {r \in BagToSet(table.rows) : r.p = p /\ r.id = id}
    IN  IF rs = {} THEN 0
        ELSE LET Sum[S \in SUBSET rs] ==
                    IF S = {} THEN 0
                    ELSE LET r == CHOOSE x \in S : TRUE
                         IN  CopiesIn(r, table.rows) + Sum[S \ {r}]
             IN  Sum[rs]

\* No network step of call p failed and no wrapper slept or raised; the
\* existence check answering "absent" is no failure.
FailureFree(p) ==
    \A k \in DOMAIN log :
        log[k].p = p =>
            /\ log[k].op \notin {"sleep", "raise"}
            /\ \/ log[k].res = "ok"
               \/ log[k].op = "te_get_table" /\ log[k].res = "NotFound"

\* C25: after a failure-free export with WRITE_APPEND against an initially
\* absent table the table holds each record of the batch exactly once: no
\* staged file is loaded into the table more than once.
C25_EachRecordOnce ==
    \A p \in Calls :
        (/\ Succeeded(p)
         /\ FailureFree(p)
         /\ call[p].absent0
         /\ call[p].wd = "WRITE_APPEND"
         /\ call[p].n > 0)
            => /\ table.exists
               /\ \A id \in 1..call[p].n : CopiesOf(p, id) = 1


\* C26: a single-chunk export against an existing table whose load job fails
\* transiently on every attempt invokes the load job (max_retries + 1)^2
\* times, 16 with the decorator's defaults, and uploads the chunk
\* max_retries + 1 times, 4 with the defaults, before export raises.
C26_LoadInvokedSquared ==
    \A p \in Calls :
        (/\ call[p].pc = "done"
         /\ ~call[p].absent0
         /\ Len(call[p].chunks) = 1
         /\ faults.always = {"ld_load"})
            => /\ call[p].result = "raised"
               /\ call[p].err = "ServiceUnavailable"
               /\ Cardinality(AllEvents(p, {"load"})) = Pow(DECORATOR_DEFAULTS.max_retries + 1, 2)
               /\ Cardinality(AllEvents(p, {"load"})) = 16
               /\ \A k \in AllEvents(p, {"load"}) : log[k].res = "ServiceUnavailable"
               /\ Cardinality(AllEvents(p, {"upload"})) = DECORATOR_DEFAULTS.max_retries + 1
               /\ Cardinality(StagedBy(p)) = 4

C26_Witness ==
    \E p \in Calls :
        /\ call[p].pc = "done"
        /\ call[p].result = "raised"
        /\ ~call[p].absent0
        /\ Len(call[p].chunks) = 1
        /\ faults.always = {"ld_load"}
        /\ Cardinality(AllEvents(p, {"load"})) = 16
        /\ Cardinality(StagedBy(p)) = 4


\* C27: when _add_import_timestamp fails with a type error (the argument is
\* neither a record nor a list, or a list with an item that is no record), no
\* record of the input was modified; the records of an input are stamped all
\* or none.
C27_StampAllOrNone ==
    \A p \in Calls :
        LET recs == {k \in DOMAIN call[p].items : call[p].items[k].rec} IN
        /\ (call[p].exc = "TypeError" \/ call[p].err = "TypeError")
                => \A k \in recs : call[p].items[k].ts = -1
        /\ \/ \A k \in recs : call[p].items[k].ts = -1
           \/ \A k \in recs : call[p].items[k].ts # -1

C27_Witness ==
    \E p \in Calls :
        /\ call[p].kind = "mixed"
        /\ call[p].result = "raised"
        /\ call[p].err = "TypeError"
        /\ Len(call[p].items) = 2
        /\ call[p].items[1].rec
        /\ ~call[p].items[2].rec
        /\ call[p].items[1].ts = -1


\* The calls that took the create-with-autodetect path.
Creators == {p \in Calls2 : \E k \in AllEvents(p, {"autoload"}) : log[k].res = "ok"}

\* C28: the table is never created by two overlapping loads: of two export
\* calls against the same initially absent table at most one takes the
\* create-with-autodetect-then-partition path.
C28_OneCreator == Cardinality(Creators) <= 1

====
